---- MODULE Spec2Model ----
(***************************************************************************)
(* Model of tools::NodeRPCProxy (src/src/wallet/node_rpc_proxy.cpp): the   *)
(* wallet's read-through cache in front of the daemon's JSON-RPC.          *)
(*                                                                         *)
(* The cache is one record, `cache`, whose fields carry the member names   *)
(* of the class.  Every accessor is a pure operator from the cache, the    *)
(* clock value, the offline flag and the daemon's replies to a result      *)
(* record [cache, err, val, calls]; the actions apply these operators.     *)
(* In this sequential specification an accessor runs to completion at one  *)
(* clock value: both time(NULL) reads of a nested get_height/get_info see  *)
(* the same second.                                                        *)
(*                                                                         *)
(* The caches of the proxy interact only through the height and its two    *)
(* timers.  A behaviour follows one client of the proxy (`client`): each   *)
(* client invalidates, pushes and reads the height, and uses the accessors *)
(* of one family.  The product of all families is beyond exhaustive search.*)
(*                                                                         *)
(* SpecThreads is the proxy shared by threads: there an invocation is a    *)
(* sequence of steps, and the steps of the threads interleave.             *)
(***************************************************************************)
EXTENDS Integers, Sequences, FiniteSets, TLC

VARIABLES
  now,        \* the value time(NULL) returns
  offline,    \* m_offline
  client,     \* which family of accessors the behaviour exercises
  cache,      \* the mutable cache members of the proxy
  last,       \* observation: the most recent invocation and what it did
  pushed,     \* observation: the most recent set_height, until a refresh or invalidate
  read,       \* observation: the most recent get_height, until another invocation
  anchor,     \* observation: the most recent get_height that fetched, while only get_height follows
  feeHist,    \* observation: the run of successful fee-estimate calls at one height
  ehFetched,  \* observation: per fork version, the value a successful fetch returned
  stored,     \* observation: the status of the reply whose entries the roster cache holds
  mutex,      \* m_daemon_rpc_mutex: its owner and how many times the owner holds it
  thr         \* per thread, the frame of the invocation it is executing

vars ==
  <<now, offline, client, cache, last, pushed, read, anchor, feeHist, ehFetched, stored,
    mutex, thr>>

-----------------------------------------------------------------------------
(* Bounds of the model *)

MaxTime == 61        \* the clock stops advancing here
MaxHeight == 1       \* heights the daemon reports or the wallet pushes: 0..MaxHeight
MaxGrace == 1        \* grace_blocks arguments: 0..MaxGrace
MaxVersion == 1      \* fork versions asked for: 0..MaxVersion
MaxMask == 1         \* quantization masks the daemon reports: 0..MaxMask
NumThreads == 2      \* threads sharing the proxy
MaxSharedTime == 30  \* the clock stops advancing here while threads share the proxy

\* clock advances between invocations
Deltas == {10, 30, 31}

Heights == 0 .. MaxHeight
GraceBlocks == 0 .. MaxGrace
Versions == 0 .. MaxVersion

-----------------------------------------------------------------------------
(* Program constants *)

RecacheSeconds == 30      \* "re-cache every 30 seconds"
NumForkSlots == 256       \* m_earliest_height[256]

CORE_RPC_STATUS_OK == "OK"
CORE_RPC_STATUS_BUSY == "BUSY"

\* boost::optional<T>: empty, or engaged with a value
None == <<>>
Some(x) == <<x>>

-----------------------------------------------------------------------------
(* The daemon's replies.  r is the boolean invoke_http_json_rpc returns,   *)
(* status the response's status string; the rest is the payload read.      *)

NoReply == [r |-> FALSE, status |-> ""]
Answered(status) == [r |-> TRUE, status |-> status]

\* failures whose payload no accessor reads
Failures == {NoReply, Answered(""), Answered(CORE_RPC_STATUS_BUSY), Answered("Internal error")}

\* a failed reply carries the default-constructed payload
Replies(payloads, empty) ==
  [t : Failures, p : {empty}] \cup [t : {Answered(CORE_RPC_STATUS_OK)}, p : payloads]

\* a synced daemon reports target_height 0; an old daemon leaves
\* block_weight_limit 0 and fills block_size_limit
InfoPayloads ==
  {[height |-> h, target_height |-> IF h = 0 THEN MaxHeight + 1 ELSE 0,
    block_weight_limit |-> IF h = 0 THEN 0 ELSE 2, block_size_limit |-> 1] : h \in Heights}

InfoReplies ==
  Replies(InfoPayloads,
          [height |-> 0, target_height |-> 0, block_weight_limit |-> 0, block_size_limit |-> 0])
VersionReplies == Replies([version : {0, 1}], [version |-> 0])
ForkReplies ==
  Replies([version : {1}, earliest_height : Heights], [version |-> 0, earliest_height |-> 0])
FeeReplies ==
  Replies({[fee |-> 1 + k, quantization_mask |-> k] : k \in 0 .. MaxMask},
          [fee |-> 0, quantization_mask |-> 0])
Rosters == {<<>>, <<"sn1">>}
\* the roster accessor stores the entries of a reply with an error status
RosterReplies ==
  [t : {NoReply, Answered(CORE_RPC_STATUS_BUSY)}, p : {[service_node_states |-> <<>>]}]
    \cup [t : {Answered(""), Answered("Internal error"), Answered(CORE_RPC_STATUS_OK)},
          p : [service_node_states : Rosters]]

\* one transport call as it is recorded in `last`
Call(method, reply) ==
  [method |-> method, r |-> reply.t.r, status |-> reply.t.status, p |-> reply.p]

-----------------------------------------------------------------------------
(* RETURN_ON_RPC_RESPONSE_ERROR: the error the macro returns, or None *)

RETURN_ON_RPC_RESPONSE_ERROR(r, status) ==
  IF ~r THEN Some("Failed to connect to daemon")
  ELSE IF status = "" THEN Some(status)
  ELSE IF status = CORE_RPC_STATUS_BUSY THEN Some(status)
  ELSE IF status # CORE_RPC_STATUS_OK THEN Some(status)
  ELSE None

-----------------------------------------------------------------------------
(* invalidate() *)

\* the members before the constructor's invalidate() has run; invalidate()
\* assigns every one of them
Members ==
  [m_all_service_nodes_cached_height |-> 0,
   m_all_service_nodes |-> <<>>,
   m_height |-> 0,
   m_earliest_height |-> [n \in 0 .. NumForkSlots - 1 |-> 0],
   m_dynamic_base_fee_estimate |-> 0,
   m_dynamic_base_fee_estimate_cached_height |-> 0,
   m_dynamic_base_fee_estimate_grace_blocks |-> 0,
   m_fee_quantization_mask |-> 0,
   m_rpc_version |-> 0,
   m_target_height |-> 0,
   m_block_weight_limit |-> 0,
   m_get_info_time |-> 0,
   m_height_time |-> 0]

\* invalidate() that leaves the rpc version as it was
invalidate_KeepsRpcVersion(c) ==
  [c EXCEPT
     !.m_all_service_nodes_cached_height = 0,
     !.m_all_service_nodes = <<>>,
     !.m_height = 0,
     !.m_earliest_height = [n \in 0 .. NumForkSlots - 1 |-> 0],
     !.m_dynamic_base_fee_estimate = 0,
     !.m_dynamic_base_fee_estimate_cached_height = 0,
     !.m_dynamic_base_fee_estimate_grace_blocks = 0,
     !.m_fee_quantization_mask = 1,
     !.m_target_height = 0,
     !.m_block_weight_limit = 0,
     !.m_get_info_time = 0,
     !.m_height_time = 0]

\* invalidate() that resets the roster height but leaves the roster
invalidate_KeepsRoster(c) ==
  [c EXCEPT
     !.m_all_service_nodes_cached_height = 0,
     !.m_height = 0,
     !.m_earliest_height = [n \in 0 .. NumForkSlots - 1 |-> 0],
     !.m_dynamic_base_fee_estimate = 0,
     !.m_dynamic_base_fee_estimate_cached_height = 0,
     !.m_dynamic_base_fee_estimate_grace_blocks = 0,
     !.m_fee_quantization_mask = 1,
     !.m_rpc_version = 0,
     !.m_target_height = 0,
     !.m_block_weight_limit = 0,
     !.m_get_info_time = 0,
     !.m_height_time = 0]

\* invalidate() that leaves the height timer as it was
invalidate_KeepsHeightTime(c) ==
  [c EXCEPT
     !.m_all_service_nodes_cached_height = 0,
     !.m_all_service_nodes = <<>>,
     !.m_height = 0,
     !.m_earliest_height = [n \in 0 .. NumForkSlots - 1 |-> 0],
     !.m_dynamic_base_fee_estimate = 0,
     !.m_dynamic_base_fee_estimate_cached_height = 0,
     !.m_dynamic_base_fee_estimate_grace_blocks = 0,
     !.m_fee_quantization_mask = 1,
     !.m_rpc_version = 0,
     !.m_target_height = 0,
     !.m_block_weight_limit = 0,
     !.m_get_info_time = 0]

invalidate(c) ==
  [c EXCEPT
     !.m_all_service_nodes_cached_height = 0,
     !.m_all_service_nodes = <<>>,
     !.m_height = 0,
     !.m_earliest_height = [n \in 0 .. NumForkSlots - 1 |-> 0],
     !.m_dynamic_base_fee_estimate = 0,
     !.m_dynamic_base_fee_estimate_cached_height = 0,
     !.m_dynamic_base_fee_estimate_grace_blocks = 0,
     !.m_fee_quantization_mask = 1,
     !.m_rpc_version = 0,
     !.m_target_height = 0,
     !.m_block_weight_limit = 0,
     !.m_get_info_time = 0,
     !.m_height_time = 0]

\* what an invocation hands back: the cache after it, the optional error,
\* the optional value written to the output parameter, the transport calls made
Result(c, err, val, calls) == [cache |-> c, err |-> err, val |-> val, calls |-> calls]

-----------------------------------------------------------------------------
(* set_height(h) at clock value t *)

\* set_height that does not restart the height timer
set_height_NoTimer(c, t, h) == [c EXCEPT !.m_height = h]

set_height(c, t, h) == [c EXCEPT !.m_height = h, !.m_height_time = t]

(* get_info() at clock value t; reply is what the daemon answers if asked *)

\* get_info that stamps the timers before it looks at the reply
get_info_StampsFirst(c, t, off, reply) ==
  IF off THEN Result(c, Some("offline"), None, <<>>)
  ELSE IF t >= c.m_get_info_time + RecacheSeconds
  THEN LET e == RETURN_ON_RPC_RESPONSE_ERROR(reply.t.r, reply.t.status)
           calls == <<Call("get_info", reply)>>
           c1 == [c EXCEPT !.m_get_info_time = t, !.m_height_time = t]
       IN  IF e # None THEN Result(c1, e, None, calls)
           ELSE Result([c1 EXCEPT
                          !.m_height = reply.p.height,
                          !.m_target_height = reply.p.target_height,
                          !.m_block_weight_limit =
                             IF reply.p.block_weight_limit # 0
                             THEN reply.p.block_weight_limit
                             ELSE reply.p.block_size_limit],
                       None, None, calls)
  ELSE Result(c, None, None, <<>>)

get_info(c, t, off, reply) ==
  IF off THEN Result(c, Some("offline"), None, <<>>)
  ELSE IF t >= c.m_get_info_time + RecacheSeconds
  THEN LET e == RETURN_ON_RPC_RESPONSE_ERROR(reply.t.r, reply.t.status)
           calls == <<Call("get_info", reply)>>
       IN  IF e # None THEN Result(c, e, None, calls)
           ELSE Result([c EXCEPT
                          !.m_height = reply.p.height,
                          !.m_target_height = reply.p.target_height,
                          !.m_block_weight_limit =
                             IF reply.p.block_weight_limit # 0
                             THEN reply.p.block_weight_limit
                             ELSE reply.p.block_size_limit,
                          !.m_get_info_time = t,
                          !.m_height_time = t],
                       None, None, calls)
  ELSE Result(c, None, None, <<>>)

(* get_height(height) *)

\* get_height whose window is one second too long
get_height_OffByOne(c, t, off, reply) ==
  IF t <= c.m_height_time + RecacheSeconds
  THEN Result(c, None, Some(c.m_height), <<>>)
  ELSE LET res == get_info(c, t, off, reply)
       IN  IF res.err # None THEN res
           ELSE Result(res.cache, None, Some(res.cache.m_height), res.calls)

get_height(c, t, off, reply) ==
  IF t < c.m_height_time + RecacheSeconds
  THEN Result(c, None, Some(c.m_height), <<>>)
  ELSE LET res == get_info(c, t, off, reply)
       IN  IF res.err # None THEN res
           ELSE Result(res.cache, None, Some(res.cache.m_height), res.calls)

(* get_target_height(height) *)

\* get_target_height that trusts the height window
get_target_height_HeightWindow(c, t, off, reply) ==
  IF t < c.m_height_time + RecacheSeconds
  THEN Result(c, None, Some(c.m_target_height), <<>>)
  ELSE LET res == get_info(c, t, off, reply)
       IN  IF res.err # None THEN res
           ELSE Result(res.cache, None, Some(res.cache.m_target_height), res.calls)

get_target_height(c, t, off, reply) ==
  LET res == get_info(c, t, off, reply)
  IN  IF res.err # None THEN res
      ELSE Result(res.cache, None, Some(res.cache.m_target_height), res.calls)

(* get_block_weight_limit(block_weight_limit) *)

get_block_weight_limit(c, t, off, reply) ==
  LET res == get_info(c, t, off, reply)
  IN  IF res.err # None THEN res
      ELSE Result(res.cache, None, Some(res.cache.m_block_weight_limit), res.calls)

(* get_rpc_version(rpc_version) *)

get_rpc_version(c, off, reply) ==
  IF off THEN Result(c, Some("offline"), None, <<>>)
  ELSE IF c.m_rpc_version = 0
  THEN LET e == RETURN_ON_RPC_RESPONSE_ERROR(reply.t.r, reply.t.status)
           calls == <<Call("get_version", reply)>>
       IN  IF e # None THEN Result(c, e, None, calls)
           ELSE Result([c EXCEPT !.m_rpc_version = reply.p.version],
                       None, Some(reply.p.version), calls)
  ELSE Result(c, None, Some(c.m_rpc_version), <<>>)

(* get_earliest_height(version, earliest_height) *)

\* get_earliest_height that returns the fetched value without storing it
get_earliest_height_NoStore(c, off, version, reply) ==
  IF off THEN Result(c, Some("offline"), None, <<>>)
  ELSE IF c.m_earliest_height[version] = 0
  THEN LET e == RETURN_ON_RPC_RESPONSE_ERROR(reply.t.r, reply.t.status)
           calls == <<Call("hard_fork_info", reply)>>
       IN  IF e # None THEN Result(c, e, None, calls)
           ELSE Result(c, None, Some(reply.p.earliest_height), calls)
  ELSE Result(c, None, Some(c.m_earliest_height[version]), <<>>)

\* get_earliest_height that files the value under the version of the reply
get_earliest_height_ReplySlot(c, off, version, reply) ==
  IF off THEN Result(c, Some("offline"), None, <<>>)
  ELSE IF c.m_earliest_height[version] = 0
  THEN LET e == RETURN_ON_RPC_RESPONSE_ERROR(reply.t.r, reply.t.status)
           calls == <<Call("hard_fork_info", reply)>>
       IN  IF e # None THEN Result(c, e, None, calls)
           ELSE Result([c EXCEPT !.m_earliest_height[reply.p.version] =
                                    reply.p.earliest_height],
                       None, Some(reply.p.earliest_height), calls)
  ELSE Result(c, None, Some(c.m_earliest_height[version]), <<>>)

get_earliest_height(c, off, version, reply) ==
  IF off THEN Result(c, Some("offline"), None, <<>>)
  ELSE IF c.m_earliest_height[version] = 0
  THEN LET e == RETURN_ON_RPC_RESPONSE_ERROR(reply.t.r, reply.t.status)
           calls == <<Call("hard_fork_info", reply)>>
       IN  IF e # None THEN Result(c, e, None, calls)
           ELSE Result([c EXCEPT !.m_earliest_height[version] = reply.p.earliest_height],
                       None, Some(reply.p.earliest_height), calls)
  ELSE Result(c, None, Some(c.m_earliest_height[version]), <<>>)

(* get_hardfork_version(): an empty optional on any failure *)

get_hardfork_version(c, reply) ==
  LET calls == <<Call("hard_fork_info", reply)>>
  IN  IF ~reply.t.r THEN Result(c, Some("failed"), None, calls)
      ELSE IF reply.t.status = CORE_RPC_STATUS_BUSY THEN Result(c, Some("failed"), None, calls)
      ELSE IF reply.t.status # CORE_RPC_STATUS_OK THEN Result(c, Some("failed"), None, calls)
      ELSE Result(c, None, Some(reply.p.version), calls)

(* get_dynamic_base_fee_estimate(grace_blocks, fee) *)

\* the fee estimate cached under the height alone
get_dynamic_base_fee_estimate_HeightKey(c, t, off, grace_blocks, info, reply) ==
  LET result == get_height(c, t, off, info)
  IN  IF result.err # None THEN Result(result.cache, result.err, None, result.calls)
      ELSE LET height == result.val[1]
               c1 == result.cache
           IN  IF off THEN Result(c1, Some("offline"), None, result.calls)
               ELSE IF c1.m_dynamic_base_fee_estimate_cached_height # height
               THEN LET e == RETURN_ON_RPC_RESPONSE_ERROR(reply.t.r, reply.t.status)
                        calls == Append(result.calls, Call("get_fee_estimate", reply))
                    IN  IF e # None THEN Result(c1, e, None, calls)
                        ELSE Result([c1 EXCEPT
                                       !.m_dynamic_base_fee_estimate = reply.p.fee,
                                       !.m_dynamic_base_fee_estimate_cached_height = height,
                                       !.m_dynamic_base_fee_estimate_grace_blocks = grace_blocks,
                                       !.m_fee_quantization_mask = reply.p.quantization_mask],
                                    None, Some(reply.p.fee), calls)
               ELSE Result(c1, None, Some(c1.m_dynamic_base_fee_estimate), result.calls)

\* the fee estimate without the offline test after get_height
get_dynamic_base_fee_estimate_NoOfflineCheck(c, t, off, grace_blocks, info, reply) ==
  LET result == get_height(c, t, off, info)
  IN  IF result.err # None THEN Result(result.cache, result.err, None, result.calls)
      ELSE LET height == result.val[1]
               c1 == result.cache
           IN  IF \/ c1.m_dynamic_base_fee_estimate_cached_height # height
                  \/ c1.m_dynamic_base_fee_estimate_grace_blocks # grace_blocks
               THEN LET e == RETURN_ON_RPC_RESPONSE_ERROR(reply.t.r, reply.t.status)
                        calls == Append(result.calls, Call("get_fee_estimate", reply))
                    IN  IF e # None THEN Result(c1, e, None, calls)
                        ELSE Result([c1 EXCEPT
                                       !.m_dynamic_base_fee_estimate = reply.p.fee,
                                       !.m_dynamic_base_fee_estimate_cached_height = height,
                                       !.m_dynamic_base_fee_estimate_grace_blocks = grace_blocks,
                                       !.m_fee_quantization_mask = reply.p.quantization_mask],
                                    None, Some(reply.p.fee), calls)
               ELSE Result(c1, None, Some(c1.m_dynamic_base_fee_estimate), result.calls)

\* the fee estimate that records the grace_blocks asked for before it
\* looks at the reply
get_dynamic_base_fee_estimate_GraceFirst(c, t, off, grace_blocks, info, reply) ==
  LET result == get_height(c, t, off, info)
  IN  IF result.err # None THEN Result(result.cache, result.err, None, result.calls)
      ELSE LET height == result.val[1]
               c1 == result.cache
           IN  IF off THEN Result(c1, Some("offline"), None, result.calls)
               ELSE IF \/ c1.m_dynamic_base_fee_estimate_cached_height # height
                       \/ c1.m_dynamic_base_fee_estimate_grace_blocks # grace_blocks
               THEN LET e == RETURN_ON_RPC_RESPONSE_ERROR(reply.t.r, reply.t.status)
                        calls == Append(result.calls, Call("get_fee_estimate", reply))
                        c2 == [c1 EXCEPT
                                 !.m_dynamic_base_fee_estimate_grace_blocks = grace_blocks]
                    IN  IF e # None THEN Result(c2, e, None, calls)
                        ELSE Result([c2 EXCEPT
                                       !.m_dynamic_base_fee_estimate = reply.p.fee,
                                       !.m_dynamic_base_fee_estimate_cached_height = height,
                                       !.m_fee_quantization_mask = reply.p.quantization_mask],
                                    None, Some(reply.p.fee), calls)
               ELSE Result(c1, None, Some(c1.m_dynamic_base_fee_estimate), result.calls)

get_dynamic_base_fee_estimate(c, t, off, grace_blocks, info, reply) ==
  LET result == get_height(c, t, off, info)
  IN  IF result.err # None THEN Result(result.cache, result.err, None, result.calls)
      ELSE LET height == result.val[1]
               c1 == result.cache
           IN  IF off THEN Result(c1, Some("offline"), None, result.calls)
               ELSE IF \/ c1.m_dynamic_base_fee_estimate_cached_height # height
                       \/ c1.m_dynamic_base_fee_estimate_grace_blocks # grace_blocks
               THEN LET e == RETURN_ON_RPC_RESPONSE_ERROR(reply.t.r, reply.t.status)
                        calls == Append(result.calls, Call("get_fee_estimate", reply))
                    IN  IF e # None THEN Result(c1, e, None, calls)
                        ELSE Result([c1 EXCEPT
                                       !.m_dynamic_base_fee_estimate = reply.p.fee,
                                       !.m_dynamic_base_fee_estimate_cached_height = height,
                                       !.m_dynamic_base_fee_estimate_grace_blocks = grace_blocks,
                                       !.m_fee_quantization_mask = reply.p.quantization_mask],
                                    None, Some(reply.p.fee), calls)
               ELSE Result(c1, None, Some(c1.m_dynamic_base_fee_estimate), result.calls)

(* get_fee_quantization_mask(fee_quantization_mask) *)

\* "Fee quantization mask is 0, forcing to 1": applied to the value returned
ForceNonZeroMask_AsIs(mask) == mask

ForceNonZeroMask(mask) == IF mask = 0 THEN 1 ELSE mask

get_fee_quantization_mask(c, t, off, info, reply) ==
  LET result == get_height(c, t, off, info)
  IN  IF result.err # None THEN Result(result.cache, result.err, None, result.calls)
      ELSE LET height == result.val[1]
               c1 == result.cache
           IN  IF off THEN Result(c1, Some("offline"), None, result.calls)
               ELSE IF c1.m_dynamic_base_fee_estimate_cached_height # height
               THEN LET e == RETURN_ON_RPC_RESPONSE_ERROR(reply.t.r, reply.t.status)
                        calls == Append(result.calls, Call("get_fee_estimate", reply))
                        mask == reply.p.quantization_mask
                    IN  IF e # None THEN Result(c1, e, None, calls)
                        ELSE Result([c1 EXCEPT
                                       !.m_dynamic_base_fee_estimate = reply.p.fee,
                                       !.m_dynamic_base_fee_estimate_cached_height = height,
                                       !.m_fee_quantization_mask = mask],
                                    None, Some(ForceNonZeroMask(mask)), calls)
               ELSE Result(c1, None, Some(ForceNonZeroMask(c1.m_fee_quantization_mask)),
                           result.calls)

(* get_service_nodes(pubkeys, failed): val is the vector returned *)

get_service_nodes(c, reply) ==
  LET calls == <<Call("get_service_nodes", reply)>>
  IN  IF ~reply.t.r THEN Result(c, Some("Failed to connect to daemon"), Some(<<>>), calls)
      ELSE IF reply.t.status = CORE_RPC_STATUS_BUSY
      THEN Result(c, Some(reply.t.status), Some(<<>>), calls)
      ELSE IF reply.t.status # CORE_RPC_STATUS_OK
      THEN Result(c, Some(reply.t.status), Some(<<>>), calls)
      ELSE Result(c, None, Some(reply.p.service_node_states), calls)

(* get_all_service_nodes(failed): val is the vector returned *)

\* the roster accessor that records the height before it looks at the reply
get_all_service_nodes_HeightOnBusy(c, t, off, info, reply) ==
  LET hres == get_height(c, t, off, info)
  IN  IF hres.err # None THEN Result(hres.cache, hres.err, Some(<<>>), hres.calls)
      ELSE LET height == hres.val[1]
               c1 == [hres.cache EXCEPT !.m_all_service_nodes_cached_height = height]
           IN  IF hres.cache.m_all_service_nodes_cached_height # height
               THEN LET calls == Append(hres.calls, Call("get_all_service_nodes", reply))
                        c2 == [c1 EXCEPT
                                 !.m_all_service_nodes = reply.p.service_node_states]
                    IN  IF ~reply.t.r
                        THEN Result(c1, Some("Failed to connect to daemon"), Some(<<>>), calls)
                        ELSE IF reply.t.status = CORE_RPC_STATUS_BUSY
                        THEN Result(c1, Some(reply.t.status), Some(<<>>), calls)
                        ELSE Result(c2,
                                    IF reply.t.status # CORE_RPC_STATUS_OK
                                    THEN Some(reply.t.status) ELSE None,
                                    Some(c2.m_all_service_nodes), calls)
               ELSE Result(c1, None, Some(c1.m_all_service_nodes), hres.calls)

\* the roster accessor that returns on every status other than OK
get_all_service_nodes_ReturnsOnError(c, t, off, info, reply) ==
  LET hres == get_height(c, t, off, info)
  IN  IF hres.err # None THEN Result(hres.cache, hres.err, Some(<<>>), hres.calls)
      ELSE LET height == hres.val[1]
               c1 == hres.cache
           IN  IF c1.m_all_service_nodes_cached_height # height
               THEN LET calls == Append(hres.calls, Call("get_all_service_nodes", reply))
                        c2 == [c1 EXCEPT
                                 !.m_all_service_nodes_cached_height = height,
                                 !.m_all_service_nodes = reply.p.service_node_states]
                    IN  IF ~reply.t.r
                        THEN Result(c1, Some("Failed to connect to daemon"), Some(<<>>), calls)
                        ELSE IF reply.t.status # CORE_RPC_STATUS_OK
                        THEN Result(c1, Some(reply.t.status), Some(<<>>), calls)
                        ELSE Result(c2, None, Some(c2.m_all_service_nodes), calls)
               ELSE Result(c1, None, Some(c1.m_all_service_nodes), hres.calls)

get_all_service_nodes(c, t, off, info, reply) ==
  LET hres == get_height(c, t, off, info)
  IN  IF hres.err # None THEN Result(hres.cache, hres.err, Some(<<>>), hres.calls)
      ELSE LET height == hres.val[1]
               c1 == hres.cache
           IN  IF c1.m_all_service_nodes_cached_height # height
               THEN LET calls == Append(hres.calls, Call("get_all_service_nodes", reply))
                        c2 == [c1 EXCEPT
                                 !.m_all_service_nodes_cached_height = height,
                                 !.m_all_service_nodes = reply.p.service_node_states]
                    IN  IF ~reply.t.r
                        THEN Result(c1, Some("Failed to connect to daemon"), Some(<<>>), calls)
                        ELSE IF reply.t.status = CORE_RPC_STATUS_BUSY
                        THEN Result(c1, Some(reply.t.status), Some(<<>>), calls)
                        ELSE Result(c2,
                                    IF reply.t.status # CORE_RPC_STATUS_OK
                                    THEN Some(reply.t.status) ELSE None,
                                    Some(c2.m_all_service_nodes), calls)
               ELSE Result(c1, None, Some(c1.m_all_service_nodes), hres.calls)

-----------------------------------------------------------------------------
(* Observations kept beside the program state *)

NoOp ==
  [op |-> "construct", arg |-> None, first |-> FALSE, err |-> None, val |-> None,
   calls |-> <<>>]

\* the proxy was constructed or invalidated and nothing was invoked since
Fresh == last.op \in {"construct", "invalidate"}

Observe(op, arg, res) ==
  [op |-> op, arg |-> arg, first |-> Fresh, err |-> res.err, val |-> res.val,
   calls |-> res.calls]

\* the daemon is asked only when the accessor makes the call: `made` is
\* whether the accessor, run with the reply `probe`, calls the method
Asked(replies, probe, made) == IF made THEN replies ELSE {probe}

Probe(replies) == CHOOSE reply \in replies : reply.t = NoReply

Makes(res, method) == \E i \in 1 .. Len(res.calls) : res.calls[i].method = method

\* the invocation made a get_info call that the daemon answered with OK
Refreshed(res) ==
  \E i \in 1 .. Len(res.calls) :
     /\ res.calls[i].method = "get_info"
     /\ res.calls[i].r
     /\ res.calls[i].status = CORE_RPC_STATUS_OK

Failed(call) == ~call.r \/ call.status # CORE_RPC_STATUS_OK

CallsOf(rec, method) == {i \in 1 .. Len(rec.calls) : rec.calls[i].method = method}

\* the last two entries of a sequence
LastTwo(q) == IF Len(q) <= 2 THEN q ELSE SubSeq(q, Len(q) - 1, Len(q))

PushedAfter(res) == IF Refreshed(res) THEN None ELSE pushed

-----------------------------------------------------------------------------
(* The state after construction: the constructor calls invalidate().  The  *)
(* offline flag is fixed for the life of the proxy.                        *)

OfflineModes == BOOLEAN

Threads == 1 .. NumThreads

\* boost::recursive_mutex: owner 0 when nobody holds it
Unlocked == [owner |-> 0, count |-> 0]

\* a thread that is not inside the proxy.  pc is the source line the thread
\* is about to execute, t the local `now`, height the local `height`, resp
\* the response of a transport call that succeeded, err what the last
\* invocation returned
IdleFrame ==
  [pc |-> "idle", op |-> "none", arg |-> 0, t |-> 0, height |-> 0, resp |-> None,
   err |-> None]

Clients == {"sync", "fee", "fork", "stake"}

Init ==
  /\ now = 0
  /\ offline \in OfflineModes
  /\ client \in Clients
  /\ cache = invalidate(Members)
  /\ last = NoOp
  /\ pushed = None
  /\ read = None
  /\ anchor = None
  /\ feeHist = None
  /\ ehFetched = [v \in Versions |-> None]
  /\ stored = None
  /\ mutex = Unlocked
  /\ thr = [self \in Threads |-> IdleFrame]

\* Commit the result of an accessor that is neither get_height, a fee
\* estimate nor get_earliest_height
Commit(op, arg, res) ==
  /\ cache' = res.cache
  /\ last' = Observe(op, arg, res)
  /\ pushed' = PushedAfter(res)
  /\ read' = None
  /\ anchor' = None
  /\ feeHist' = None
  /\ UNCHANGED <<now, offline, client, mutex, thr>>

(* the wall clock advances between invocations *)
Tick ==
  \E d \in Deltas :
     /\ now + d <= MaxTime
     /\ now' = now + d
     /\ UNCHANGED <<offline, client, cache, last, pushed, read, anchor, feeHist, ehFetched,
                    stored, mutex, thr>>

CallInvalidate ==
  /\ cache' = invalidate(cache)
  /\ last' = [NoOp EXCEPT !.op = "invalidate", !.arg = Some(cache # invalidate(cache)),
                          !.first = Fresh]
  /\ pushed' = None
  /\ read' = None
  /\ anchor' = None
  /\ feeHist' = None
  /\ ehFetched' = [v \in Versions |-> None]
  /\ stored' = None
  /\ UNCHANGED <<now, offline, client, mutex, thr>>

CallSetHeight ==
  \E h \in Heights :
     /\ cache' = set_height(cache, now, h)
     /\ last' = [NoOp EXCEPT !.op = "set_height", !.arg = Some(h), !.first = Fresh]
     /\ pushed' = [h |-> h, t |-> now]
     /\ read' = None
     /\ anchor' = None
     /\ feeHist' = None
     /\ UNCHANGED <<now, offline, client, ehFetched, stored, mutex, thr>>

CallGetInfo ==
  \E reply \in Asked(InfoReplies, Probe(InfoReplies),
                     get_info(cache, now, offline, Probe(InfoReplies)).calls # <<>>) :
     /\ Commit("get_info", None, get_info(cache, now, offline, reply))
     /\ UNCHANGED <<ehFetched, stored>>

CallGetHeight ==
  \E reply \in Asked(InfoReplies, Probe(InfoReplies),
                     get_height(cache, now, offline, Probe(InfoReplies)).calls # <<>>) :
     LET res == get_height(cache, now, offline, reply)
     IN  /\ cache' = res.cache
         /\ last' = Observe("get_height", None, res)
         /\ pushed' = PushedAfter(res)
         /\ read' = IF res.err # None THEN None ELSE [t |-> now, val |-> res.val[1]]
         /\ anchor' = IF res.err # None THEN None
                      ELSE IF res.calls # <<>>
                      THEN [t |-> now, val |-> res.val[1], fresh |-> Fresh]
                      ELSE anchor
         /\ feeHist' = None
         /\ UNCHANGED <<now, offline, client, ehFetched, stored, mutex, thr>>

CallGetTargetHeight ==
  \E reply \in Asked(InfoReplies, Probe(InfoReplies),
                     get_target_height(cache, now, offline, Probe(InfoReplies)).calls # <<>>) :
     /\ Commit("get_target_height", None, get_target_height(cache, now, offline, reply))
     /\ UNCHANGED <<ehFetched, stored>>

CallGetBlockWeightLimit ==
  \E reply \in Asked(InfoReplies, Probe(InfoReplies),
                     get_block_weight_limit(cache, now, offline, Probe(InfoReplies)).calls # <<>>) :
     /\ Commit("get_block_weight_limit", None,
               get_block_weight_limit(cache, now, offline, reply))
     /\ UNCHANGED <<ehFetched, stored>>

CallGetRpcVersion ==
  \E reply \in Asked(VersionReplies, Probe(VersionReplies),
                     get_rpc_version(cache, offline, Probe(VersionReplies)).calls # <<>>) :
     /\ Commit("get_rpc_version", None, get_rpc_version(cache, offline, reply))
     /\ UNCHANGED <<ehFetched, stored>>

CallGetEarliestHeight(version) ==
  \E reply \in Asked(ForkReplies, Probe(ForkReplies),
                     get_earliest_height(cache, offline, version, Probe(ForkReplies)).calls # <<>>) :
     LET res == get_earliest_height(cache, offline, version, reply)
     IN  /\ Commit("get_earliest_height", Some(version), res)
         /\ ehFetched' = IF res.err = None /\ res.calls # <<>>
                         THEN [ehFetched EXCEPT ![version] = res.val]
                         ELSE ehFetched
         /\ UNCHANGED stored

CallGetHardforkVersion ==
  \E reply \in ForkReplies :
     /\ Commit("get_hardfork_version", None, get_hardfork_version(cache, reply))
     /\ UNCHANGED <<ehFetched, stored>>

CallGetDynamicBaseFeeEstimate(grace_blocks) ==
  \E info \in Asked(InfoReplies, Probe(InfoReplies),
                    get_height(cache, now, offline, Probe(InfoReplies)).calls # <<>>) :
  \E reply \in Asked(FeeReplies, Probe(FeeReplies),
                     Makes(get_dynamic_base_fee_estimate(cache, now, offline, grace_blocks,
                                                         info, Probe(FeeReplies)),
                           "get_fee_estimate")) :
     LET res == get_dynamic_base_fee_estimate(cache, now, offline, grace_blocks, info, reply)
     IN  /\ cache' = res.cache
         /\ last' = Observe("get_dynamic_base_fee_estimate", Some(grace_blocks), res)
         /\ pushed' = PushedAfter(res)
         /\ read' = None
         /\ anchor' = None
         /\ feeHist' = IF res.err # None THEN None
                       ELSE IF feeHist # None /\ feeHist.h = res.cache.m_height
                       THEN [h |-> feeHist.h, fee |-> res.val[1],
                             gs |-> LastTwo(feeHist.gs) \o <<grace_blocks>>]
                       ELSE [h |-> res.cache.m_height, fee |-> res.val[1],
                             gs |-> <<grace_blocks>>]
         /\ UNCHANGED <<now, offline, client, ehFetched, stored, mutex, thr>>

CallGetFeeQuantizationMask ==
  \E info \in Asked(InfoReplies, Probe(InfoReplies),
                    get_height(cache, now, offline, Probe(InfoReplies)).calls # <<>>) :
  \E reply \in Asked(FeeReplies, Probe(FeeReplies),
                     Makes(get_fee_quantization_mask(cache, now, offline, info,
                                                     Probe(FeeReplies)),
                           "get_fee_estimate")) :
     /\ Commit("get_fee_quantization_mask", None,
               get_fee_quantization_mask(cache, now, offline, info, reply))
     /\ UNCHANGED <<ehFetched, stored>>

CallGetServiceNodes ==
  \E reply \in RosterReplies :
     /\ Commit("get_service_nodes", None, get_service_nodes(cache, reply))
     /\ UNCHANGED <<ehFetched, stored>>

CallGetAllServiceNodes ==
  \E info \in Asked(InfoReplies, Probe(InfoReplies),
                    get_height(cache, now, offline, Probe(InfoReplies)).calls # <<>>) :
  \E reply \in Asked(RosterReplies, Probe(RosterReplies),
                     Makes(get_all_service_nodes(cache, now, offline, info,
                                                 Probe(RosterReplies)),
                           "get_all_service_nodes")) :
     LET res == get_all_service_nodes(cache, now, offline, info, reply)
     IN  /\ Commit("get_all_service_nodes", None, res)
         /\ stored' = IF /\ Makes(res, "get_all_service_nodes")
                          /\ res.calls[Len(res.calls)].r
                          /\ res.calls[Len(res.calls)].status # CORE_RPC_STATUS_BUSY
                       THEN Some(res.calls[Len(res.calls)].status)
                       ELSE stored
         /\ UNCHANGED ehFetched

\* the wallet's refresh loop: the height and the aggregate info
NextSync ==
  \/ Tick
  \/ CallInvalidate
  \/ CallSetHeight
  \/ CallGetHeight
  \/ CallGetInfo
  \/ CallGetTargetHeight
  \/ CallGetBlockWeightLimit

\* fee estimation for a transaction
NextFee ==
  \/ Tick
  \/ CallInvalidate
  \/ CallSetHeight
  \/ CallGetHeight
  \/ \E grace_blocks \in GraceBlocks : CallGetDynamicBaseFeeEstimate(grace_blocks)
  \/ CallGetFeeQuantizationMask

\* protocol and fork queries: no clock, no height
NextFork ==
  \/ CallInvalidate
  \/ CallGetRpcVersion
  \/ \E version \in Versions : CallGetEarliestHeight(version)
  \/ CallGetHardforkVersion

\* service node rosters
NextStake ==
  \/ Tick
  \/ CallInvalidate
  \/ CallSetHeight
  \/ CallGetHeight
  \/ CallGetServiceNodes
  \/ CallGetAllServiceNodes

Next ==
  \/ client = "sync" /\ NextSync
  \/ client = "fee" /\ NextFee
  \/ client = "fork" /\ NextFork
  \/ client = "stake" /\ NextStake

Spec == Init /\ [][Next]_vars

\* one client alone
InitSync == Init /\ client = "sync"
InitFee == Init /\ client = "fee"
InitFork == Init /\ client = "fork"
InitStake == Init /\ client = "stake"

SpecSync == InitSync /\ [][NextSync]_vars
SpecFee == InitFee /\ [][NextFee]_vars
SpecFork == InitFork /\ [][NextFork]_vars
SpecStake == InitStake /\ [][NextStake]_vars

-----------------------------------------------------------------------------
(* Threads.  Several threads share the proxy and m_daemon_rpc_mutex.  Here  *)
(* an invocation is a sequence of steps, one per statement that reads or   *)
(* writes a cache member, reads the clock, or takes the mutex; statements  *)
(* that touch only locals run with the step before them.  The transport    *)
(* call, the test of its reply and the end of the lock_guard's scope are   *)
(* one step: while a thread is at the label of a call the call is in       *)
(* flight.  A label is the accessor's initials and the source line.        *)

\* the observations of the sequential specification stay as they are
NoObservation ==
  UNCHANGED <<offline, client, last, pushed, read, anchor, feeHist, ehFetched, stored>>

\* boost::recursive_mutex::lock(): blocks while another thread is the owner
Acquire(self) ==
  /\ mutex.owner \in {0, self}
  /\ mutex' = [owner |-> self, count |-> mutex.count + 1]

\* boost::recursive_mutex::unlock()
Release(self) ==
  /\ mutex.owner = self
  /\ mutex' = IF mutex.count = 1 THEN Unlocked ELSE [mutex EXCEPT !.count = @ - 1]

\* a step that touches no cache member and not the mutex
Local(self, f) ==
  /\ thr' = [thr EXCEPT ![self] = f]
  /\ UNCHANGED <<now, cache, mutex>>
  /\ NoObservation

\* a step that assigns cache members
Store(self, c, f) ==
  /\ cache' = c
  /\ thr' = [thr EXCEPT ![self] = f]
  /\ UNCHANGED <<now, mutex>>
  /\ NoObservation

\* lock(), or the construction of a lock_guard
Lock(self, f) ==
  /\ Acquire(self)
  /\ thr' = [thr EXCEPT ![self] = f]
  /\ UNCHANGED <<now, cache>>
  /\ NoObservation

\* unlock(), or the end of a lock_guard's scope on any path
Unlock(self, c, f) ==
  /\ Release(self)
  /\ cache' = c
  /\ thr' = [thr EXCEPT ![self] = f]
  /\ UNCHANGED now
  /\ NoObservation

Goto(f, pc) == [f EXCEPT !.pc = pc]

\* the invocation returns e to the caller of the proxy
Done(f, e) == IdleFrame

\* get_height returns e: where its caller goes on (lines 205-208, 237-240, 308)
RetHeight(f, e) ==
  LET g == [f EXCEPT !.t = 0, !.resp = None]
  IN  IF f.op = "get_height" \/ e # None THEN Done(f, e)
      ELSE IF f.op = "get_all_service_nodes" THEN Goto(g, "sn312")
      ELSE IF offline THEN Done(f, Some("offline"))
      ELSE IF f.op = "get_dynamic_base_fee_estimate" THEN Goto(g, "fe210")
      ELSE Goto(g, "fm242")

\* get_info returns e: where its caller goes on (lines 138, 147, 156)
RetInfo(f, e) ==
  LET g == [f EXCEPT !.t = 0, !.resp = None]
  IN  IF f.op = "get_info" THEN Done(f, e)
      ELSE IF f.op = "get_target_height"
      THEN IF e # None THEN Done(f, e) ELSE Goto(g, "gt149")
      ELSE IF f.op = "get_block_weight_limit"
      THEN IF e # None THEN Done(f, e) ELSE Goto(g, "gb158")
      ELSE IF e # None THEN RetHeight(g, e) ELSE Goto(g, "gh140")

\* what a thread outside the proxy may invoke, and the first label
Entry ==
  [invalidate |-> "iv61", set_height |-> "sh99", get_info |-> "gi105",
   get_height |-> "gh130", get_target_height |-> "gi105",
   get_block_weight_limit |-> "gi105", get_rpc_version |-> "rv80",
   get_earliest_height |-> "eh164", get_hardfork_version |-> "hf190",
   get_dynamic_base_fee_estimate |-> "gh130", get_fee_quantization_mask |-> "gh130",
   get_service_nodes |-> "gs276", get_all_service_nodes |-> "gh130"]

Arguments(op) ==
  IF op = "set_height" THEN Heights
  ELSE IF op = "get_dynamic_base_fee_estimate" THEN GraceBlocks
  ELSE IF op = "get_earliest_height" THEN Versions
  ELSE {0}

\* the threads of a behaviour serve one client of the proxy; the height is
\* pushed and the cache invalidated by the threads of the refresh loop
Menu ==
  [sync |-> {"invalidate", "set_height", "get_info", "get_height", "get_target_height",
             "get_block_weight_limit"},
   fee |-> {"get_dynamic_base_fee_estimate", "get_fee_quantization_mask"},
   fork |-> {"get_rpc_version", "get_earliest_height", "get_hardfork_version"},
   stake |-> {"get_service_nodes", "get_all_service_nodes"}]

Begin(self) ==
  /\ thr[self].pc = "idle"
  /\ \E op \in Menu[client] : \E arg \in Arguments(op) :
        Local(self, [IdleFrame EXCEPT !.pc = Entry[op], !.op = op, !.arg = arg])

\* the replies to get_fee_estimate the threads are given: the fee and the mask
\* steer no branch, so one payload stands for all
FeeRepliesShared == {reply \in FeeReplies : reply.p.quantization_mask = 0}

\* the clock advances while threads are anywhere in the proxy
Elapse ==
  /\ now + RecacheSeconds <= MaxSharedTime
  /\ now' = now + RecacheSeconds
  /\ UNCHANGED <<cache, mutex, thr>>
  /\ NoObservation

invalidate_step(self) ==
  LET f == thr[self]
  IN  \/ /\ f.pc = "iv61"
         /\ Store(self, [cache EXCEPT !.m_all_service_nodes_cached_height = 0], Goto(f, "iv62"))
      \/ /\ f.pc = "iv62"
         /\ Store(self, [cache EXCEPT !.m_all_service_nodes = <<>>], Goto(f, "iv64"))
      \/ /\ f.pc = "iv64"
         /\ Store(self, [cache EXCEPT !.m_height = 0], Goto(f, "iv65"))
      \/ /\ f.pc = "iv65"
         /\ Store(self, [cache EXCEPT !.m_earliest_height = [n \in 0 .. NumForkSlots - 1 |-> 0]],
                  Goto(f, "iv67"))
      \/ /\ f.pc = "iv67"
         /\ Store(self, [cache EXCEPT !.m_dynamic_base_fee_estimate = 0], Goto(f, "iv68"))
      \/ /\ f.pc = "iv68"
         /\ Store(self, [cache EXCEPT !.m_dynamic_base_fee_estimate_cached_height = 0],
                  Goto(f, "iv69"))
      \/ /\ f.pc = "iv69"
         /\ Store(self, [cache EXCEPT !.m_dynamic_base_fee_estimate_grace_blocks = 0],
                  Goto(f, "iv70"))
      \/ /\ f.pc = "iv70"
         /\ Store(self, [cache EXCEPT !.m_fee_quantization_mask = 1], Goto(f, "iv71"))
      \/ /\ f.pc = "iv71"
         /\ Store(self, [cache EXCEPT !.m_rpc_version = 0], Goto(f, "iv72"))
      \/ /\ f.pc = "iv72"
         /\ Store(self, [cache EXCEPT !.m_target_height = 0], Goto(f, "iv73"))
      \/ /\ f.pc = "iv73"
         /\ Store(self, [cache EXCEPT !.m_block_weight_limit = 0], Goto(f, "iv74"))
      \/ /\ f.pc = "iv74"
         /\ Store(self, [cache EXCEPT !.m_get_info_time = 0], Goto(f, "iv75"))
      \/ /\ f.pc = "iv75"
         /\ Store(self, [cache EXCEPT !.m_height_time = 0], Done(f, None))

set_height_step(self) ==
  LET f == thr[self]
  IN  \/ /\ f.pc = "sh99"
         /\ Store(self, [cache EXCEPT !.m_height = f.arg], Goto(f, "sh100"))
      \/ /\ f.pc = "sh100"                       \* time(NULL) is evaluated
         /\ Local(self, [f EXCEPT !.pc = "sh100s", !.t = now])
      \/ /\ f.pc = "sh100s"                      \* and assigned
         /\ Store(self, [cache EXCEPT !.m_height_time = f.t], Done(f, None))

\* get_info that tests the window again before it takes the mutex
get_info_step_Recheck(self) ==
  LET f == thr[self]
  IN  \/ /\ f.pc = "gi105"
         /\ Local(self, IF offline THEN RetInfo(f, Some("offline"))
                        ELSE [f EXCEPT !.pc = "gi108", !.t = now])
      \/ /\ f.pc = "gi108"
         /\ Local(self, IF f.t >= cache.m_get_info_time + RecacheSeconds
                        THEN Goto(f, "gi114") ELSE RetInfo(f, None))
      \/ /\ f.pc = "gi114"
         /\ IF f.t >= cache.m_get_info_time + RecacheSeconds
            THEN Lock(self, Goto(f, "gi115"))
            ELSE Local(self, RetInfo(f, None))
      \/ /\ f.pc = "gi115"
         /\ \E reply \in InfoReplies :
               LET e == RETURN_ON_RPC_RESPONSE_ERROR(reply.t.r, reply.t.status)
               IN  Unlock(self, cache,
                          IF e # None THEN RetInfo(f, e)
                          ELSE [f EXCEPT !.pc = "gi119", !.resp = Some(reply.p)])
      \/ /\ f.pc = "gi119"
         /\ Store(self, [cache EXCEPT !.m_height = f.resp[1].height], Goto(f, "gi120"))
      \/ /\ f.pc = "gi120"
         /\ Store(self, [cache EXCEPT !.m_target_height = f.resp[1].target_height],
                  Goto(f, "gi121"))
      \/ /\ f.pc = "gi121"
         /\ Store(self, [cache EXCEPT !.m_block_weight_limit =
                                         IF f.resp[1].block_weight_limit # 0
                                         THEN f.resp[1].block_weight_limit
                                         ELSE f.resp[1].block_size_limit],
                  Goto(f, "gi122"))
      \/ /\ f.pc = "gi122"
         /\ Store(self, [cache EXCEPT !.m_get_info_time = f.t], Goto(f, "gi123"))
      \/ /\ f.pc = "gi123"
         /\ Store(self, [cache EXCEPT !.m_height_time = f.t], RetInfo(f, None))

get_info_step(self) ==
  LET f == thr[self]
  IN  \/ /\ f.pc = "gi105"
         /\ Local(self, IF offline THEN RetInfo(f, Some("offline"))
                        ELSE [f EXCEPT !.pc = "gi108", !.t = now])
      \/ /\ f.pc = "gi108"
         /\ Local(self, IF f.t >= cache.m_get_info_time + RecacheSeconds
                        THEN Goto(f, "gi114") ELSE RetInfo(f, None))
      \/ /\ f.pc = "gi114"
         /\ Lock(self, Goto(f, "gi115"))
      \/ /\ f.pc = "gi115"
         /\ \E reply \in InfoReplies :
               LET e == RETURN_ON_RPC_RESPONSE_ERROR(reply.t.r, reply.t.status)
               IN  Unlock(self, cache,
                          IF e # None THEN RetInfo(f, e)
                          ELSE [f EXCEPT !.pc = "gi119", !.resp = Some(reply.p)])
      \/ /\ f.pc = "gi119"
         /\ Store(self, [cache EXCEPT !.m_height = f.resp[1].height], Goto(f, "gi120"))
      \/ /\ f.pc = "gi120"
         /\ Store(self, [cache EXCEPT !.m_target_height = f.resp[1].target_height],
                  Goto(f, "gi121"))
      \/ /\ f.pc = "gi121"
         /\ Store(self, [cache EXCEPT !.m_block_weight_limit =
                                         IF f.resp[1].block_weight_limit # 0
                                         THEN f.resp[1].block_weight_limit
                                         ELSE f.resp[1].block_size_limit],
                  Goto(f, "gi122"))
      \/ /\ f.pc = "gi122"
         /\ Store(self, [cache EXCEPT !.m_get_info_time = f.t], Goto(f, "gi123"))
      \/ /\ f.pc = "gi123"
         /\ Store(self, [cache EXCEPT !.m_height_time = f.t], RetInfo(f, None))

get_height_step(self) ==
  LET f == thr[self]
  IN  \/ /\ f.pc = "gh130"
         /\ Local(self, [f EXCEPT !.pc = "gh131", !.t = now])
      \/ /\ f.pc = "gh131"
         /\ Local(self, IF f.t < cache.m_height_time + RecacheSeconds
                        THEN [f EXCEPT !.pc = "gh133", !.t = 0]
                        ELSE [f EXCEPT !.pc = "gi105", !.t = 0])
      \/ /\ f.pc \in {"gh133", "gh140"}
         /\ Local(self, RetHeight([f EXCEPT !.height = cache.m_height], None))

get_target_height_step(self) ==
  LET f == thr[self]
  IN  /\ f.pc = "gt149"                          \* height = m_target_height
      /\ Local(self, Done(f, None))

get_block_weight_limit_step(self) ==
  LET f == thr[self]
  IN  /\ f.pc = "gb158"                          \* block_weight_limit = m_block_weight_limit
      /\ Local(self, Done(f, None))

get_rpc_version_step(self) ==
  LET f == thr[self]
  IN  \/ /\ f.pc = "rv80"
         /\ Local(self, IF offline THEN Done(f, Some("offline"))
                        ELSE IF cache.m_rpc_version = 0 THEN Goto(f, "rv87")
                        ELSE Goto(f, "rv93"))
      \/ /\ f.pc = "rv87"
         /\ Lock(self, Goto(f, "rv88"))
      \/ /\ f.pc = "rv88"
         /\ \E reply \in VersionReplies :
               LET e == RETURN_ON_RPC_RESPONSE_ERROR(reply.t.r, reply.t.status)
               IN  Unlock(self, cache,
                          IF e # None THEN Done(f, e)
                          ELSE [f EXCEPT !.pc = "rv91", !.resp = Some(reply.p)])
      \/ /\ f.pc = "rv91"
         /\ Store(self, [cache EXCEPT !.m_rpc_version = f.resp[1].version],
                  [f EXCEPT !.pc = "rv93", !.resp = None])
      \/ /\ f.pc = "rv93"                        \* rpc_version = m_rpc_version
         /\ Local(self, Done(f, None))

get_earliest_height_step(self) ==
  LET f == thr[self]
  IN  \/ /\ f.pc = "eh164"
         /\ Local(self, IF offline THEN Done(f, Some("offline"))
                        ELSE IF cache.m_earliest_height[f.arg] = 0 THEN Goto(f, "eh173")
                        ELSE Goto(f, "eh181"))
      \/ /\ f.pc = "eh173"
         /\ Lock(self, Goto(f, "eh174"))
      \/ /\ f.pc = "eh174"
         /\ \E reply \in ForkReplies :
               LET e == RETURN_ON_RPC_RESPONSE_ERROR(reply.t.r, reply.t.status)
               IN  Unlock(self, cache,
                          IF e # None THEN Done(f, e)
                          ELSE [f EXCEPT !.pc = "eh178", !.resp = Some(reply.p)])
      \/ /\ f.pc = "eh178"
         /\ Store(self, [cache EXCEPT !.m_earliest_height[f.arg] = f.resp[1].earliest_height],
                  [f EXCEPT !.pc = "eh181", !.resp = None])
      \/ /\ f.pc = "eh181"                       \* earliest_height = m_earliest_height[version]
         /\ Local(self, Done(f, None))

\* get_hardfork_version without lock() and unlock()
get_hardfork_version_step_NoLock(self) ==
  LET f == thr[self]
  IN  \/ /\ f.pc = "hf190"
         /\ Local(self, Goto(f, "hf191"))
      \/ /\ f.pc = "hf191"
         /\ \E reply \in ForkReplies :
               Local(self, Done(f, IF ~reply.t.r \/ reply.t.status # CORE_RPC_STATUS_OK
                                   THEN Some("failed") ELSE None))

get_hardfork_version_step(self) ==
  LET f == thr[self]
  IN  \/ /\ f.pc = "hf190"
         /\ Lock(self, Goto(f, "hf191"))
      \/ /\ f.pc = "hf191"
         /\ \E reply \in ForkReplies :
               Unlock(self, cache,
                      Done(f, IF ~reply.t.r \/ reply.t.status # CORE_RPC_STATUS_OK
                              THEN Some("failed") ELSE None))

get_dynamic_base_fee_estimate_step(self) ==
  LET f == thr[self]
  IN  \/ /\ f.pc = "fe210"
         /\ Local(self, IF \/ cache.m_dynamic_base_fee_estimate_cached_height # f.height
                           \/ cache.m_dynamic_base_fee_estimate_grace_blocks # f.arg
                        THEN Goto(f, "fe217") ELSE Goto(f, "fe228"))
      \/ /\ f.pc = "fe217"
         /\ Lock(self, Goto(f, "fe218"))
      \/ /\ f.pc = "fe218"
         /\ \E reply \in FeeRepliesShared :
               LET e == RETURN_ON_RPC_RESPONSE_ERROR(reply.t.r, reply.t.status)
               IN  Unlock(self, cache,
                          IF e # None THEN Done(f, e)
                          ELSE [f EXCEPT !.pc = "fe222", !.resp = Some(reply.p)])
      \/ /\ f.pc = "fe222"
         /\ Store(self, [cache EXCEPT !.m_dynamic_base_fee_estimate = f.resp[1].fee],
                  Goto(f, "fe223"))
      \/ /\ f.pc = "fe223"
         /\ Store(self, [cache EXCEPT !.m_dynamic_base_fee_estimate_cached_height = f.height],
                  Goto(f, "fe224"))
      \/ /\ f.pc = "fe224"
         /\ Store(self, [cache EXCEPT !.m_dynamic_base_fee_estimate_grace_blocks = f.arg],
                  Goto(f, "fe225"))
      \/ /\ f.pc = "fe225"
         /\ Store(self, [cache EXCEPT !.m_fee_quantization_mask = f.resp[1].quantization_mask],
                  [f EXCEPT !.pc = "fe228", !.resp = None])
      \/ /\ f.pc = "fe228"                       \* fee = m_dynamic_base_fee_estimate
         /\ Local(self, Done(f, None))

get_fee_quantization_mask_step(self) ==
  LET f == thr[self]
  IN  \/ /\ f.pc = "fm242"
         /\ Local(self, IF cache.m_dynamic_base_fee_estimate_cached_height # f.height
                        THEN [f EXCEPT !.pc = "fm249",
                                       !.arg = cache.m_dynamic_base_fee_estimate_grace_blocks]
                        ELSE Goto(f, "fm259"))
      \/ /\ f.pc = "fm249"
         /\ Lock(self, Goto(f, "fm250"))
      \/ /\ f.pc = "fm250"
         /\ \E reply \in FeeRepliesShared :
               LET e == RETURN_ON_RPC_RESPONSE_ERROR(reply.t.r, reply.t.status)
               IN  Unlock(self, cache,
                          IF e # None THEN Done(f, e)
                          ELSE [f EXCEPT !.pc = "fm254", !.resp = Some(reply.p)])
      \/ /\ f.pc = "fm254"
         /\ Store(self, [cache EXCEPT !.m_dynamic_base_fee_estimate = f.resp[1].fee],
                  Goto(f, "fm255"))
      \/ /\ f.pc = "fm255"
         /\ Store(self, [cache EXCEPT !.m_dynamic_base_fee_estimate_cached_height = f.height],
                  Goto(f, "fm256"))
      \/ /\ f.pc = "fm256"
         /\ Store(self, [cache EXCEPT !.m_fee_quantization_mask = f.resp[1].quantization_mask],
                  [f EXCEPT !.pc = "fm259", !.resp = None])
      \/ /\ f.pc = "fm259"                       \* fee_quantization_mask = m_fee_quantization_mask
         /\ Local(self, Done(f, None))

\* get_service_nodes that returns on a failure before unlock()
get_service_nodes_step_ReturnsLocked(self) ==
  LET f == thr[self]
  IN  \/ /\ f.pc = "gs276"
         /\ Lock(self, Goto(f, "gs277"))
      \/ /\ f.pc = "gs277"
         /\ \E reply \in RosterReplies :
               IF ~reply.t.r
               THEN Local(self, Done(f, Some("Failed to connect to daemon")))
               ELSE Unlock(self, cache,
                           Done(f, IF reply.t.status # CORE_RPC_STATUS_OK
                                   THEN Some(reply.t.status) ELSE None))

get_service_nodes_step(self) ==
  LET f == thr[self]
  IN  \/ /\ f.pc = "gs276"
         /\ Lock(self, Goto(f, "gs277"))
      \/ /\ f.pc = "gs277"
         /\ \E reply \in RosterReplies :
               Unlock(self, cache,
                      Done(f, IF ~reply.t.r THEN Some("Failed to connect to daemon")
                              ELSE IF reply.t.status # CORE_RPC_STATUS_OK
                              THEN Some(reply.t.status) ELSE None))

get_all_service_nodes_step(self) ==
  LET f == thr[self]
  IN  \/ /\ f.pc = "sn312"
         /\ Lock(self, Goto(f, "sn313"))
      \/ /\ f.pc = "sn313"
         /\ Local(self, IF cache.m_all_service_nodes_cached_height # f.height
                        THEN Goto(f, "sn318") ELSE Goto(f, "sn341"))
      \/ /\ f.pc = "sn318"
         /\ \E reply \in RosterReplies :
               IF ~reply.t.r
               THEN Unlock(self, cache, Done(f, Some("Failed to connect to daemon")))
               ELSE IF reply.t.status = CORE_RPC_STATUS_BUSY
               THEN Unlock(self, cache, Done(f, Some(reply.t.status)))
               ELSE Local(self, [f EXCEPT !.pc = "sn337", !.resp = Some(reply.p),
                                          !.err = IF reply.t.status # CORE_RPC_STATUS_OK
                                                  THEN Some(reply.t.status) ELSE None])
      \/ /\ f.pc = "sn337"
         /\ Store(self, [cache EXCEPT !.m_all_service_nodes_cached_height = f.height],
                  Goto(f, "sn338"))
      \/ /\ f.pc = "sn338"
         /\ Store(self, [cache EXCEPT !.m_all_service_nodes = f.resp[1].service_node_states],
                  [f EXCEPT !.pc = "sn341", !.resp = None])
      \/ /\ f.pc = "sn341"                       \* result = m_all_service_nodes
         /\ Unlock(self, cache, Done(f, f.err))

\* one step of the invocation a thread is executing
Run(self) ==
  \/ invalidate_step(self)
  \/ set_height_step(self)
  \/ get_info_step(self)
  \/ get_height_step(self)
  \/ get_target_height_step(self)
  \/ get_block_weight_limit_step(self)
  \/ get_rpc_version_step(self)
  \/ get_earliest_height_step(self)
  \/ get_hardfork_version_step(self)
  \/ get_dynamic_base_fee_estimate_step(self)
  \/ get_fee_quantization_mask_step(self)
  \/ get_service_nodes_step(self)
  \/ get_all_service_nodes_step(self)

NextThreads ==
  \/ Elapse
  \/ \E self \in Threads : Begin(self) \/ Run(self)

InitThreads == Init

SpecThreads == InitThreads /\ [][NextThreads]_vars

\* a thread inside the proxy keeps running, and a thread waiting for the
\* mutex gets it when it is released again and again
SpecThreadsFair == SpecThreads /\ \A self \in Threads : SF_vars(Run(self))

-----------------------------------------------------------------------------
(* Properties of the height and info accessors (SpecSync) *)

\* the step is an invocation of op: every invocation records itself in
\* `last`, and the clock moves between invocations only
Did(op) == last'.op = op /\ now' = now

OneCall(rec, method) == Len(rec.calls) = 1 /\ rec.calls[1].method = method

Hit(rec, v) == rec.err = None /\ rec.val = Some(v) /\ rec.calls = <<>>

\* C1 as stated: a get_height at t0 that returned a height (by a fetch or by a
\* cache hit) opens a window [t0, t0+30) in which every get_height returns
\* the same height with no transport call, and a get_height at t0+30 or
\* later on a non-offline proxy makes a new get_info call.
C1_AsStated ==
  [][(CallGetHeight /\ read # None) =>
       /\ now < read.t + RecacheSeconds => Hit(last', read.val)
       /\ (now >= read.t + RecacheSeconds /\ ~offline) => OneCall(last', "get_info")]_vars

\* C1 amended: the window opens at the get_height that fetched (height_time),
\* not at a get_height that was itself a cache hit.  After a get_height at t0
\* that made the get_info call and returned a height, every get_height at
\* t0 <= t < t0+30 returns that height with no transport call; and after any
\* successful get_height at t0, a get_height at t0+30 or later on a
\* non-offline proxy makes exactly one new get_info call.
C1_FreshnessWindow ==
  [][CallGetHeight =>
       /\ (anchor # None /\ now < anchor.t + RecacheSeconds) => Hit(last', anchor.val)
       /\ (read # None /\ now >= read.t + RecacheSeconds /\ ~offline)
             => OneCall(last', "get_info")]_vars

\* a get_height served from the cache 20 s or more after the get_height that fetched
C1_Witness ==
  /\ last.op = "get_height"
  /\ anchor # None /\ read # None
  /\ Hit(last, anchor.val)
  /\ anchor.val # 0
  /\ read.t >= anchor.t + 20

InfoFields(c) ==
  <<c.m_height, c.m_target_height, c.m_block_weight_limit, c.m_get_info_time, c.m_height_time>>

\* C2: when the get_info transport call made by get_info, get_height,
\* get_target_height or get_block_weight_limit fails (no reply, empty, busy or
\* any other non-OK status), the accessor returns an error and height,
\* target_height, block_weight_limit, get_info_time and height_time keep
\* their values.
C2_StaleOnError ==
  [][((CallGetInfo \/ CallGetHeight \/ CallGetTargetHeight \/ CallGetBlockWeightLimit)
        /\ \E i \in CallsOf(last', "get_info") : Failed(last'.calls[i]))
       => /\ last'.err # None
          /\ last'.val = None
          /\ InfoFields(cache') = InfoFields(cache)]_vars

\* get_height failed on a busy daemon while a fetched height is cached
C2_Witness ==
  /\ last.op = "get_height"
  /\ last.err = Some(CORE_RPC_STATUS_BUSY)
  /\ cache.m_height # 0
  /\ cache.m_get_info_time # 0

\* C3: after set_height(h) at time t (the most recent push, with no
\* invalidate and no info refresh since), every get_height at t <= t' < t+30
\* returns h with no transport call, also when the info window is stale.
C3_PushedHeight ==
  [][(CallGetHeight /\ pushed # None /\ now < pushed.t + RecacheSeconds)
       => Hit(last', pushed.h)]_vars

\* a pushed height is served while the info window is stale and differs from the fetched one
C3_Witness ==
  /\ last.op = "get_height"
  /\ pushed # None
  /\ Hit(last, pushed.h)
  /\ now > pushed.t
  /\ cache.m_get_info_time # 0
  /\ now >= cache.m_get_info_time + RecacheSeconds
  /\ ~offline

\* C7 as stated: on a fresh proxy the first get_height, at any clock value,
\* makes exactly one get_info call and returns the height of the response.
C7_AsStated ==
  [][(CallGetHeight /\ Fresh /\ ~offline)
       => /\ OneCall(last', "get_info")
          /\ ~Failed(last'.calls[1]) => last'.val = Some(last'.calls[1].p.height)]_vars

\* C7 amended: on a fresh non-offline proxy the first get_height at a clock
\* value of 30 or more makes exactly one get_info call and returns the height
\* of the response (below 30 the zeroed height_time still counts as fresh and
\* it returns 0 with no call); a get_height 10 s after that fetch returns the
\* same height with no call; a get_height 31 s after it makes one new call.
C7_FreshProxy ==
  [][CallGetHeight =>
       /\ (Fresh /\ ~offline /\ now >= RecacheSeconds)
            => /\ OneCall(last', "get_info")
               /\ ~Failed(last'.calls[1]) =>
                     (last'.err = None /\ last'.val = Some(last'.calls[1].p.height))
       /\ (Fresh /\ now < RecacheSeconds) => Hit(last', 0)
       /\ (anchor # None /\ anchor.fresh /\ now = anchor.t + 10) => Hit(last', anchor.val)
       /\ (anchor # None /\ anchor.fresh /\ now = anchor.t + 31)
            => OneCall(last', "get_info")]_vars

\* the get_height 10 s after the first fetch of a fresh proxy, served from the cache
C7_Witness ==
  /\ last.op = "get_height"
  /\ anchor # None /\ anchor.fresh /\ anchor.val # 0
  /\ now = anchor.t + 10
  /\ Hit(last, anchor.val)


-----------------------------------------------------------------------------
(* Properties of the fork accessors (SpecFork) *)

\* C8 as stated: once get_earliest_height(v) has succeeded, every later
\* get_earliest_height(v) before the next invalidate() makes no transport
\* call and returns the same value, whatever value the node reported.
C8_AsStated ==
  [][\A v \in Versions :
       (CallGetEarliestHeight(v) /\ ehFetched[v] # None) => Hit(last', ehFetched[v][1])]_vars

\* C8 amended: once get_earliest_height(v) has succeeded with a non-zero
\* earliest_height, every later get_earliest_height(v) before the next
\* invalidate() makes no transport call and returns the same value; a
\* reported 0 is the "unfetched" mark, and the next call asks the node again.
C8_FetchedOnce ==
  [][\A v \in Versions :
       CallGetEarliestHeight(v) =>
         /\ (ehFetched[v] # None /\ ehFetched[v] # Some(0)) => Hit(last', ehFetched[v][1])
         /\ (ehFetched[v] = Some(0) /\ ~offline) => OneCall(last', "hard_fork_info")]_vars

\* a second get_earliest_height(v) served from the table
C8_Witness ==
  /\ last.op = "get_earliest_height"
  /\ ~last.first
  /\ ehFetched[last.arg[1]] = Some(1)
  /\ Hit(last, 1)

OtherThanForkTable(c) == [c EXCEPT !.m_earliest_height = <<>>]

\* C9: get_earliest_height(v), whether it hits, fetches or fails, changes no
\* earliest_height[w] for w # v and no other cache field.
C9_PerVersion ==
  [][\A v \in Versions :
       CallGetEarliestHeight(v) =>
         /\ \A w \in (0 .. NumForkSlots - 1) \ {v} :
               cache'.m_earliest_height[w] = cache.m_earliest_height[w]
         /\ OtherThanForkTable(cache') = OtherThanForkTable(cache)]_vars

\* version 0 has just been fetched while version 1 stays unfetched and the
\* rpc version stays cached
C9_Witness ==
  /\ last.op = "get_earliest_height"
  /\ last.arg = Some(0)
  /\ last.err = None /\ last.calls # <<>>
  /\ cache.m_earliest_height[0] # 0
  /\ cache.m_earliest_height[1] = 0
  /\ cache.m_rpc_version # 0


-----------------------------------------------------------------------------
(* Properties of the fee accessors (SpecFee) *)

\* the invocation got a height from get_height and that height is h
SawHeight(rec, c, h) ==
  /\ rec.err = None \/ Makes(rec, "get_fee_estimate")
  /\ c.m_height = h

\* C4 as stated: with the cached height staying at h, a fee estimate for
\* grace_blocks g is cached for (h, g); a following call with another
\* grace_blocks makes a new get_fee_estimate call; a call with g made after
\* that is a cache hit.
C4_AsStated ==
  [][\A g \in GraceBlocks :
       (Did("get_dynamic_base_fee_estimate") /\ last'.arg = Some(g) /\ feeHist # None
          /\ SawHeight(last', cache', feeHist.h))
       => LET n == Len(feeHist.gs)
          IN  /\ feeHist.gs[n] # g => Makes(last', "get_fee_estimate")
              /\ (n >= 2 /\ feeHist.gs[n - 1] = g /\ feeHist.gs[n] # g)
                    => ~Makes(last', "get_fee_estimate")]_vars

\* C4 amended: the cache holds one fee estimate, for the pair (height,
\* grace_blocks) of the last fetch.  With the cached height staying at h, a
\* successful get_dynamic_base_fee_estimate(g) leaves the fee cached for
\* (h, g); a following call with another grace_blocks makes a new
\* get_fee_estimate call, and so does a call with g made after that; only a
\* call that repeats the grace_blocks of the call before it is a hit.
C4_FeeKeyedOnPair ==
  [][\A g \in GraceBlocks :
       (Did("get_dynamic_base_fee_estimate") /\ last'.arg = Some(g)) =>
         /\ last'.err = None =>
               /\ cache'.m_dynamic_base_fee_estimate_cached_height = cache'.m_height
               /\ cache'.m_dynamic_base_fee_estimate_grace_blocks = g
               /\ last'.val = Some(cache'.m_dynamic_base_fee_estimate)
         /\ (feeHist # None /\ SawHeight(last', cache', feeHist.h)) =>
               LET n == Len(feeHist.gs)
               IN  /\ feeHist.gs[n] # g => Makes(last', "get_fee_estimate")
                   /\ feeHist.gs[n] = g =>
                         /\ ~Makes(last', "get_fee_estimate")
                         /\ last'.val = Some(feeHist.fee)]_vars

\* estimates for g, another grace_blocks and g again at one height: the third
\* call has fetched, with the height served from the cache
C4_Witness ==
  /\ last.op = "get_dynamic_base_fee_estimate"
  /\ feeHist # None
  /\ Len(feeHist.gs) = 3
  /\ feeHist.gs[1] = feeHist.gs[3] /\ feeHist.gs[2] # feeHist.gs[3]
  /\ feeHist.h # 0
  /\ last.err = None
  /\ OneCall(last, "get_fee_estimate")

\* C10 as stated: get_fee_quantization_mask never returns 0, and the cached
\* fee_quantization_mask is non-zero in every reachable state.
C10_AsStated ==
  /\ (last.op = "get_fee_quantization_mask" /\ last.err = None) => last.val # Some(0)
  /\ cache.m_fee_quantization_mask # 0

\* C10 amended: get_fee_quantization_mask never returns 0 on success: it
\* returns the cached mask, and 1 when that is 0, so a node-reported 0 is
\* returned as 1.  The coercion is made on the returned value, not on the
\* cache: the field holds what the node reported, 0 included.
C10_MaskNeverZero ==
  (last.op = "get_fee_quantization_mask" /\ last.err = None) =>
     /\ last.val # Some(0)
     /\ last.val = Some(IF cache.m_fee_quantization_mask = 0 THEN 1
                        ELSE cache.m_fee_quantization_mask)
     /\ \A i \in CallsOf(last, "get_fee_estimate") :
           /\ cache.m_fee_quantization_mask = last.calls[i].p.quantization_mask
           /\ last.calls[i].p.quantization_mask = 0 => last.val = Some(1)

\* the node reported mask 0, it is cached as 0 and returned as 1
C10_Witness ==
  /\ last.op = "get_fee_quantization_mask"
  /\ last.err = None
  /\ \E i \in CallsOf(last, "get_fee_estimate") : last.calls[i].p.quantization_mask = 0
  /\ cache.m_fee_quantization_mask = 0
  /\ last.val = Some(1)


-----------------------------------------------------------------------------
(* Properties of invalidate() over all accessors (Spec) *)

CacheReaders ==
  {"get_rpc_version", "get_height", "get_target_height", "get_block_weight_limit",
   "get_earliest_height", "get_dynamic_base_fee_estimate", "get_fee_quantization_mask",
   "get_all_service_nodes"}

\* C5 as stated: the first accessor invoked on a just-invalidated non-offline
\* proxy makes exactly one transport call, whichever accessor it is.
C5_AsStated ==
  [][(Fresh /\ ~offline /\ now' = now /\ last'.op \in CacheReaders)
       => Len(last'.calls) = 1]_vars

\* the transport calls a height-keyed accessor makes after its get_info
\* call on a fresh proxy: one more unless what it looks up equals the zeroed key
OwnFetch(rec) ==
  IF rec.op = "get_dynamic_base_fee_estimate"
  THEN rec.calls[1].p.height # 0 \/ rec.arg # Some(0)
  ELSE rec.calls[1].p.height # 0

\* C5 amended: on a just-invalidated non-offline proxy, get_rpc_version and
\* get_earliest_height make exactly one transport call; at a clock value of
\* 30 or more get_height, get_target_height and get_block_weight_limit make
\* exactly one (get_info), and get_dynamic_base_fee_estimate,
\* get_fee_quantization_mask and get_all_service_nodes make the get_info call
\* and then, if it succeeded and the height (or, for the fee estimate, the
\* grace_blocks) is not 0, a second call for their own data.  Below clock 30
\* the zeroed timers count as fresh and the get_info call is not made.
C5_FirstCallAfterInvalidate ==
  [][(Fresh /\ ~offline /\ now' = now) =>
       /\ last'.op = "get_rpc_version" => OneCall(last', "get_version")
       /\ last'.op = "get_earliest_height" => OneCall(last', "hard_fork_info")
       /\ last'.op \in {"get_height", "get_target_height", "get_block_weight_limit"} =>
             IF now >= RecacheSeconds THEN OneCall(last', "get_info")
             ELSE last'.calls = <<>>
       /\ (last'.op \in {"get_dynamic_base_fee_estimate", "get_fee_quantization_mask",
                          "get_all_service_nodes"} /\ now >= RecacheSeconds) =>
             /\ Len(last'.calls) >= 1
             /\ last'.calls[1].method = "get_info"
             /\ Len(last'.calls) =
                   IF ~Failed(last'.calls[1]) /\ OwnFetch(last') THEN 2 ELSE 1
             /\ Len(last'.calls) = 2 =>
                   last'.calls[2].method =
                     IF last'.op = "get_all_service_nodes" THEN "get_all_service_nodes"
                     ELSE "get_fee_estimate"
       /\ (last'.op \in {"get_dynamic_base_fee_estimate", "get_fee_quantization_mask",
                          "get_all_service_nodes"} /\ now < RecacheSeconds) =>
             \A i \in 1 .. Len(last'.calls) : last'.calls[i].method # "get_info"]_vars

\* the first accessor on a just-invalidated proxy has made two calls
C5_Witness ==
  /\ last.first
  /\ ~offline
  /\ last.op = "get_fee_quantization_mask"
  /\ Len(last.calls) = 2
  /\ last.err = None

\* every cache field zero or empty
AllZero ==
  [m_all_service_nodes_cached_height |-> 0,
   m_all_service_nodes |-> <<>>,
   m_height |-> 0,
   m_earliest_height |-> [n \in 0 .. NumForkSlots - 1 |-> 0],
   m_dynamic_base_fee_estimate |-> 0,
   m_dynamic_base_fee_estimate_cached_height |-> 0,
   m_dynamic_base_fee_estimate_grace_blocks |-> 0,
   m_fee_quantization_mask |-> 0,
   m_rpc_version |-> 0,
   m_target_height |-> 0,
   m_block_weight_limit |-> 0,
   m_get_info_time |-> 0,
   m_height_time |-> 0]

\* C6 as stated: after invalidate() every cache field, fee_quantization_mask
\* included, is 0 or empty, and no transport call was made.
C6_AsStated ==
  last.op = "invalidate" => (cache = AllZero /\ last.calls = <<>>)

\* C6 amended: after invalidate(), from any reachable cache state, every
\* cache field holds its sentinel: fee_quantization_mask is 1, every other
\* numeric field and all 256 earliest_height slots are 0 and the roster is
\* empty; no transport call is made; a second invalidate() changes nothing.
C6_InvalidateResets ==
  /\ last.op = "invalidate" =>
        /\ cache = [AllZero EXCEPT !.m_fee_quantization_mask = 1]
        /\ DOMAIN cache.m_earliest_height = 0 .. 255
        /\ last.calls = <<>>
  /\ invalidate(invalidate(cache)) = invalidate(cache)

\* invalidate() has just cleared a cache that held fetched data
C6_Witness ==
  /\ last.op = "invalidate"
  /\ last.arg = Some(TRUE)
  /\ now >= RecacheSeconds

-----------------------------------------------------------------------------
(* Properties of the failure paths *)

OfflineCheckers ==
  {"get_rpc_version", "get_info", "get_target_height", "get_block_weight_limit",
   "get_earliest_height", "get_dynamic_base_fee_estimate", "get_fee_quantization_mask"}

\* C11: on an offline proxy, whatever was invoked before (set_height
\* included), get_rpc_version, get_info, get_target_height,
\* get_block_weight_limit, get_earliest_height, get_dynamic_base_fee_estimate
\* and get_fee_quantization_mask return the offline error and make no
\* transport call, while get_hardfork_version and get_service_nodes make one.
C11_OfflineMode ==
  offline =>
    /\ last.op \in OfflineCheckers => (last.err = Some("offline") /\ last.calls = <<>>)
    /\ last.op = "get_hardfork_version" => OneCall(last, "hard_fork_info")
    /\ last.op = "get_service_nodes" => OneCall(last, "get_service_nodes")

\* offline, a height was pushed that the fee cache does not hold, and the
\* fee estimate was refused after its get_height had succeeded from the cache
C11_Witness ==
  /\ offline
  /\ last.op = "get_dynamic_base_fee_estimate"
  /\ last.err = Some("offline")
  /\ pushed # None
  /\ now < cache.m_height_time + RecacheSeconds
  /\ cache.m_height # cache.m_dynamic_base_fee_estimate_cached_height

\* the reply the daemon gave to a recorded transport call
ReplyOf(call) == [t |-> [r |-> call.r, status |-> call.status], p |-> call.p]

\* C12 as stated: an invocation of any accessor but get_all_service_nodes that
\* returns an error leaves the whole cache record as it was, and no transport
\* call of the invocation follows one that failed.
C12_AsStated ==
  [][(now' = now /\ last'.op # "get_all_service_nodes" /\ last'.err # None) =>
       /\ cache' = cache
       /\ \A i \in 1 .. Len(last'.calls) - 1 : ~Failed(last'.calls[i])]_vars

\* C12 amended: an invocation of any accessor but get_all_service_nodes that
\* returns an error made no transport call after the one that failed, and
\* stored nothing of the failed reply: the cache is as before the invocation,
\* except that when the get_info call of a fee or mask accessor succeeded and
\* its get_fee_estimate call then failed, the cache is as that get_info left it.
C12_NoPartialUpdate ==
  [][(now' = now /\ last'.op # "get_all_service_nodes" /\ last'.err # None) =>
       /\ \A i \in 1 .. Len(last'.calls) - 1 : ~Failed(last'.calls[i])
       /\ Len(last'.calls) >= 1 => Failed(last'.calls[Len(last'.calls)])
       /\ Len(last'.calls) <= 1 => cache' = cache
       /\ Len(last'.calls) > 1 =>
             /\ Len(last'.calls) = 2
             /\ last'.op \in {"get_dynamic_base_fee_estimate", "get_fee_quantization_mask"}
             /\ last'.calls[1].method = "get_info"
             /\ last'.calls[2].method = "get_fee_estimate"
             /\ cache' = get_info(cache, now, offline, ReplyOf(last'.calls[1])).cache]_vars

\* a fee estimate failed on its get_fee_estimate call after its get_info call
\* had refreshed the height and the timers for a different grace_blocks
C12_Witness ==
  /\ last.op = "get_dynamic_base_fee_estimate"
  /\ last.err # None
  /\ Len(last.calls) = 2
  /\ ~Failed(last.calls[1])
  /\ cache.m_get_info_time = now
  /\ now >= RecacheSeconds
  /\ last.arg # Some(cache.m_dynamic_base_fee_estimate_grace_blocks)

-----------------------------------------------------------------------------
(* Properties of the service node roster (SpecStake) *)

\* the invocation made the roster call and got no reply or a busy status
RosterMiss(rec) ==
  /\ Makes(rec, "get_all_service_nodes")
  /\ \/ ~rec.calls[Len(rec.calls)].r
     \/ rec.calls[Len(rec.calls)].status = CORE_RPC_STATUS_BUSY

\* the invocation made the roster call and got a status neither OK nor busy
RosterError(rec) ==
  /\ Makes(rec, "get_all_service_nodes")
  /\ rec.calls[Len(rec.calls)].r
  /\ rec.calls[Len(rec.calls)].status \notin {CORE_RPC_STATUS_OK, CORE_RPC_STATUS_BUSY}

\* C13: a get_all_service_nodes whose roster call gets no reply or a busy
\* status returns an error and an empty result and leaves all_service_nodes
\* and all_service_nodes_height as they were.
C13_RosterUntouched ==
  [][(Did("get_all_service_nodes") /\ RosterMiss(last')) =>
       /\ last'.err # None
       /\ last'.val = Some(<<>>)
       /\ cache'.m_all_service_nodes = cache.m_all_service_nodes
       /\ cache'.m_all_service_nodes_cached_height =
             cache.m_all_service_nodes_cached_height]_vars

\* the roster call was refused at a height other than the one a cached,
\* non-empty roster was stored for
C13_Witness ==
  /\ last.op = "get_all_service_nodes"
  /\ RosterMiss(last)
  /\ cache.m_all_service_nodes # <<>>
  /\ cache.m_all_service_nodes_cached_height # cache.m_height

-----------------------------------------------------------------------------
(* Properties of get_target_height and get_block_weight_limit (SpecSync) *)

\* C18: on a non-offline proxy get_target_height and get_block_weight_limit
\* make the get_info call exactly when now >= get_info_time + 30, whatever
\* height_time is, and on success return the cached target_height or
\* block_weight_limit; the limit cached from a reply is its
\* block_weight_limit if that is not 0 and its block_size_limit otherwise.
C18_InfoWindowOnly ==
  [][(~offline /\ now' = now
        /\ last'.op \in {"get_target_height", "get_block_weight_limit"}) =>
       /\ IF now >= cache.m_get_info_time + RecacheSeconds
          THEN OneCall(last', "get_info") ELSE last'.calls = <<>>
       /\ last'.err = None =>
             last'.val = Some(IF last'.op = "get_target_height"
                              THEN cache'.m_target_height
                              ELSE cache'.m_block_weight_limit)
       /\ last'.calls = <<>> => (last'.err = None /\ cache' = cache)
       /\ (last'.calls # <<>> /\ last'.err = None) =>
             /\ cache'.m_target_height = last'.calls[1].p.target_height
             /\ cache'.m_block_weight_limit =
                   IF last'.calls[1].p.block_weight_limit # 0
                   THEN last'.calls[1].p.block_weight_limit
                   ELSE last'.calls[1].p.block_size_limit]_vars

\* get_target_height made the get_info call although a height pushed in the
\* same second keeps the height window fresh
C18_Witness ==
  /\ ~offline
  /\ last.op = "get_target_height"
  /\ OneCall(last, "get_info")
  /\ Failed(last.calls[1])
  /\ pushed # None
  /\ pushed.t = now
  /\ cache.m_height_time = now

-----------------------------------------------------------------------------
(* Properties of the threads (SpecThreads, SpecThreadsFair) *)

\* the labels at which a transport call is in flight
CallLabels == {"gi115", "rv88", "eh174", "hf191", "fe218", "fm250", "gs277", "sn318"}

\* the labels at which a thread waits for the mutex
LockLabels == {"gi114", "rv87", "eh173", "hf190", "fe217", "fm249", "gs276", "sn312"}

\* C15 as stated: every write an accessor makes to a cache member happens
\* while the writing thread holds the mutex, so that the members get_info
\* stores are never seen half-updated.
C15_AsStated ==
  [][\A self \in Threads :
        (thr'[self] # thr[self] /\ cache' # cache
           /\ thr[self].op \notin {"invalidate", "set_height"})
          => mutex.owner = self]_vars

\* C16: a thread that is outside the proxy does not hold the mutex, on
\* whichever path it returned, and a thread inside the proxy eventually
\* returns, whatever the other threads invoke.
C16_NoDeadlock ==
  /\ [](\A self \in Threads : thr[self].pc = "idle" => mutex.owner # self)
  /\ \A self \in Threads : (thr[self].pc # "idle") ~> (thr[self].pc = "idle")

\* a mask accessor waits for the mutex inside its nested get_info while the
\* other thread's fee accessor has its get_fee_estimate call in flight
C16_Witness ==
  /\ thr[1].pc = "fe218"
  /\ mutex.owner = 1
  /\ thr[2].pc = "gi114"
  /\ thr[2].op = "get_fee_quantization_mask"

\* C17: a thread that found the info window expired makes the get_info call
\* once it has the mutex, whatever another thread has stored in the
\* meantime: the window is not tested again under the mutex.
C17_DuplicateRefresh ==
  [][\A self \in Threads :
        (thr[self].pc = "gi114" /\ thr'[self] # thr[self])
          => /\ thr'[self].pc = "gi115"
             /\ mutex'.owner = self]_vars

\* a thread has its get_info call in flight for a window that another
\* thread, which read the same clock value, has already refreshed
C17_Witness ==
  \E self \in Threads :
     /\ thr[self].pc = "gi115"
     /\ thr[self].op = "get_height"
     /\ thr[self].t >= RecacheSeconds
     /\ cache.m_get_info_time = thr[self].t
     /\ cache.m_height_time = thr[self].t

\* C19: at most one transport call is in flight, and the thread that makes
\* it holds the mutex from before the call until the reply has arrived.
C19_OneCallInFlight ==
  /\ \A self \in Threads : thr[self].pc \in CallLabels => mutex.owner = self
  /\ \A self, other \in Threads :
        (thr[self].pc \in CallLabels /\ thr[other].pc \in CallLabels) => self = other
  /\ mutex.owner = 0 <=> mutex.count = 0

\* get_hardfork_version has its call in flight and the other thread, about
\* to fetch an earliest height, waits for the mutex
C19_Witness ==
  /\ thr[1].pc = "hf191"
  /\ thr[2].pc = "eh173"
  /\ mutex = [owner |-> 1, count |-> 1]

\* C20 as stated: whenever no invocation is under way, height_time is not
\* older than get_info_time.
C20_AsStated ==
  (\A self \in Threads : thr[self].pc = "idle")
    => cache.m_height_time >= cache.m_get_info_time

====
